---- MODULE Spec2Model ----
(***************************************************************************)
(* Model of master.py: the QuizGame class (SQLite-backed questions, users  *)
(* and scores tables, PBKDF2 credential records) and the __main__ script   *)
(* that seeds the questions, logs in or registers one user and plays one   *)
(* quiz session.  The database file outlives the process, so the script is *)
(* modelled over several startups against the same file.                   *)
(*                                                                         *)
(* Text is a sequence of one-character strings.  A storage call either     *)
(* succeeds or raises sqlite3.Error (other than IntegrityError) in         *)
(* execute() or in commit(); the number of such faults is bounded.         *)
(***************************************************************************)
EXTENDS Integers, Sequences, FiniteSets, TLC

(***************************************************************************)
(* Bounds of the model.                                                    *)
(***************************************************************************)
\* number of process startups against the same database file
MaxRuns == 2
\* how many of the script's add_question calls are modelled (a prefix)
NumSeed == 1
\* how many storage calls may raise in one behaviour of FaultSpec
MaxFaults == 3
\* number of distinct outcomes of os.urandom(60)
NumRandom == 2

(***************************************************************************)
(* Program constants.                                                      *)
(***************************************************************************)
\* len(hashlib.sha256(..).hexdigest()), and the split point user[1][:64]
SaltLen == 64
\* len(username) < 3
MinUsernameLen == 3
\* len(password) < 8
MinPasswordLen == 8

(***************************************************************************)
(* Characters.                                                             *)
(***************************************************************************)
Ord == "a" :> 97 @@ "b" :> 98 @@ "c" :> 99 @@ "d" :> 100 @@ "e" :> 101 @@ "f" :> 102 @@
       "g" :> 103 @@ "h" :> 104 @@ "i" :> 105 @@ "j" :> 106 @@ "k" :> 107 @@ "l" :> 108 @@
       "m" :> 109 @@ "n" :> 110 @@ "o" :> 111 @@ "p" :> 112 @@ "q" :> 113 @@ "r" :> 114 @@
       "s" :> 115 @@ "t" :> 116 @@ "u" :> 117 @@ "v" :> 118 @@ "w" :> 119 @@ "x" :> 120 @@
       "y" :> 121 @@ "z" :> 122 @@ "A" :> 65 @@ "B" :> 66 @@ "C" :> 67 @@ "D" :> 68 @@
       "E" :> 69 @@ "F" :> 70 @@ "G" :> 71 @@ "H" :> 72 @@ "I" :> 73 @@ "J" :> 74 @@
       "K" :> 75 @@ "L" :> 76 @@ "M" :> 77 @@ "N" :> 78 @@ "O" :> 79 @@ "P" :> 80 @@
       "Q" :> 81 @@ "R" :> 82 @@ "S" :> 83 @@ "T" :> 84 @@ "U" :> 85 @@ "V" :> 86 @@
       "W" :> 87 @@ "X" :> 88 @@ "Y" :> 89 @@ "Z" :> 90 @@ "0" :> 48 @@ "1" :> 49 @@
       "2" :> 50 @@ "3" :> 51 @@ "4" :> 52 @@ "5" :> 53 @@ "6" :> 54 @@ "7" :> 55 @@
       "8" :> 56 @@ "9" :> 57 @@ " " :> 32 @@ "!" :> 33

Chars == DOMAIN Ord

Chr(n) == CHOOSE c \in Chars : Ord[c] = n

IsUpper(c) == c \in Chars /\ Ord[c] >= 65 /\ Ord[c] <= 90

IsLowerCh(c) == c \in Chars /\ Ord[c] >= 97 /\ Ord[c] <= 122

IsDigit(c) == c \in Chars /\ Ord[c] >= 48 /\ Ord[c] <= 57

IsSpace(c) == c = " "

\* str.isalnum(): non-empty and every character a letter or a digit
isalnum(s) ==
  /\ Len(s) > 0
  /\ \A i \in 1..Len(s) : IsUpper(s[i]) \/ IsLowerCh(s[i]) \/ IsDigit(s[i])

\* the lower-case and upper-case form of each character
LowerChar == [c \in Chars |-> IF IsUpper(c) THEN Chr(Ord[c] + 32) ELSE c]

UpperChar == [c \in Chars |-> IF IsLowerCh(c) THEN Chr(Ord[c] - 32) ELSE c]

\* str.lower()
lower(s) == [i \in 1..Len(s) |-> LowerChar[s[i]]]

\* str.upper(), used to build the player's inputs
upper(s) == [i \in 1..Len(s) |-> UpperChar[s[i]]]

\* str.strip(): drop leading and trailing whitespace
strip(s) ==
  LET keep == {i \in 1..Len(s) : ~IsSpace(s[i])}
  IN IF keep = {} THEN << >>
     ELSE LET lo == CHOOSE i \in keep : \A j \in keep : i <= j
              hi == CHOOSE i \in keep : \A j \in keep : i >= j
          IN SubSeq(s, lo, hi)

\* s[:n]
SliceTo(s, n) == SubSeq(s, 1, IF Len(s) < n THEN Len(s) ELSE n)

\* s[n:]
SliceFrom(s, n) == SubSeq(s, n + 1, Len(s))

(***************************************************************************)
(* Hashing.                                                                *)
(***************************************************************************)
HexDigits == <<"0","1","2","3","4","5","6","7","8","9","a","b","c","d","e","f">>

\* binascii.hexlify: two lower-case hex digits per byte
hexlify(bytes) ==
  [i \in 1..(2 * Len(bytes)) |->
     LET b == bytes[(i + 1) \div 2]
     IN IF i % 2 = 1 THEN HexDigits[(b \div 16) + 1] ELSE HexDigits[(b % 16) + 1]]

\* hashlib.sha256(os.urandom(60)).hexdigest(): 64 hex digits decided by the
\* random bytes r
sha256_hexdigest(r) ==
  [i \in 1..SaltLen |-> HexDigits[((r * 7 + i * (r + 3)) % 16) + 1]]

RECURSIVE SumOrdTo(_, _)
SumOrdTo(s, n) == IF n = 0 THEN 0 ELSE Ord[s[n]] + SumOrdTo(s, n - 1)

\* the sum of the character codes of s
SumOrd(s) == SumOrdTo(s, Len(s))

\* hashlib.pbkdf2_hmac("sha512", password, salt, 100000): the derived bytes.
\* The derivation is deterministic in (password, salt) and is taken to be
\* injective on the password for a fixed salt: byte i mixes character i of
\* the password with the whole salt.
pbkdf2_hmac(password, salt) ==
  LET mix == SumOrd(salt)
  IN [i \in 1..Len(password) |-> (Ord[password[i]] + mix + i) % 256]

(***************************************************************************)
(* Inputs.                                                                 *)
(***************************************************************************)
\* the questions the script adds on every startup, in order
SeedData ==
    <<
       [question |-> "What does CPU stand for? ",
        answer |-> <<"c","e","n","t","r","a","l"," ","p","r","o","c","e","s","s","i","n","g"," ","u","n","i","t">>],
       [question |-> "What does GPU stand for? ",
        answer |-> <<"g","r","a","p","h","i","c","s"," ","p","r","o","c","e","s","s","i","n","g"," ","u","n","i","t">>],
       [question |-> "What does RAM stand for? ",
        answer |-> <<"r","a","n","d","o","m"," ","a","c","c","e","s","s"," ","m","e","m","o","r","y">>],
       [question |-> "What does PSU stand for? ",
        answer |-> <<"p","o","w","e","r"," ","s","u","p","p","l","y">>],
       [question |-> "What does SSD stand for? ",
        answer |-> <<"s","o","l","i","d"," ","s","t","a","t","e"," ","d","r","i","v","e">>],
       [question |-> "What does HDD stand for? ",
        answer |-> <<"h","a","r","d"," ","d","i","s","k"," ","d","r","i","v","e">>],
       [question |-> "What does USB stand for? ",
        answer |-> <<"u","n","i","v","e","r","s","a","l"," ","s","e","r","i","a","l"," ","b","u","s">>]
    >>

Seeds == SubSeq(SeedData, 1, IF NumSeed < Len(SeedData) THEN NumSeed ELSE Len(SeedData))

\* what the user may type at "Enter your username: "
Usernames ==
  { <<"a","b">>, <<"a"," ","c">>, <<"a","b","c">> }

\* what the user may type at "Enter your password: "
Passwords ==
  { << >>, <<"p","a","s","s","w","o","r">>, <<"p","a","s","s","w","o","r","d">>,
    <<"p","a","s","s","w","0","r","d">>, <<"p","a","s","s"," ","w","o","r","d">> }

\* what the player may type for a question whose stored answer is a: the
\* answer itself, in capitals, padded with blanks (all three count as right),
\* the answer cut short, or nothing (both wrong)
AnswerInputs(a) ==
  { [text |-> a, right |-> TRUE],
    [text |-> <<" ">> \o upper(a) \o <<" ", " ">>, right |-> TRUE],
    [text |-> Tail(a), right |-> FALSE],
    [text |-> << >>, right |-> FALSE] }

Randoms == 0..(NumRandom - 1)

(***************************************************************************)
(* The store.  A database is a record of the three tables: questions is a  *)
(* sequence of rows, users is a function from username (the primary key)   *)
(* to the password column, scores is a sequence of rows.                   *)
(***************************************************************************)
EmptyDb == [questions |-> << >>, users |-> << >>, scores |-> << >>]

\* the outcomes of one storage call when `budget` faults are still allowed
FaultChoices(budget, kinds) == IF budget > 0 THEN {"ok"} \cup kinds ELSE {"ok"}

Cost(f) == IF f = "ok" THEN 0 ELSE 1

\* INSERT INTO questions (question, answer) VALUES (?, ?)
InsertQuestion(questions, q, a) == Append(questions, [question |-> q, answer |-> a])

\* a users table without the primary key: the insert replaces the row
InsertOrReplaceUser(users, u, rec) ==
  [err |-> "none", users |-> [x \in DOMAIN users \cup {u} |-> IF x = u THEN rec ELSE users[x]]]

\* INSERT INTO users (username, password) VALUES (?, ?) against
\* users(username TEXT PRIMARY KEY, password TEXT)
InsertUser(users, u, rec) ==
  IF u \in DOMAIN users
    THEN [err |-> "IntegrityError", users |-> users]
    ELSE [err |-> "none", users |-> (u :> rec) @@ users]

\* INSERT INTO scores (username, score) VALUES (?, ?)
InsertScore(scores, u, s) == Append(scores, <<u, s>>)

(***************************************************************************)
(* QuizGame methods, as functions of the connection's view d of the        *)
(* database, the committed file k, the arguments and the storage outcome f.*)
(***************************************************************************)
\* add_question: the fault is caught and logged, nothing is returned
add_question(d, k, q, a, f) ==
  IF f = "execute" THEN [db |-> d, disk |-> k]
  ELSE LET d2 == [d EXCEPT !.questions = InsertQuestion(@, q, a)]
       IN IF f = "commit" THEN [db |-> d2, disk |-> k]
          ELSE [db |-> d2, disk |-> d2]

\* the three validation checks of register_user, in order
NotEmpty(username, password) == username # << >> /\ password # << >>

\* the length check with the password bound off by one
LongEnoughOffByOne(username, password) ==
  ~(Len(username) < MinUsernameLen \/ Len(password) < MinPasswordLen - 1)

LongEnough(username, password) ==
  ~(Len(username) < MinUsernameLen \/ Len(password) < MinPasswordLen)

Alphanumeric(username, password) == ~(~isalnum(username) \/ ~isalnum(password))

Validate(username, password) ==
  IF ~NotEmpty(username, password) THEN FALSE
  ELSE IF ~LongEnough(username, password) THEN FALSE
  ELSE IF ~Alphanumeric(username, password) THEN FALSE
  ELSE TRUE

\* salt + hexlify(pbkdf2_hmac(password, salt)), the stored password column
CredentialRecord(password, r) ==
  LET salt == sha256_hexdigest(r)
  IN salt \o hexlify(pbkdf2_hmac(password, salt))

\* register_user: ret is "True", "False" or "raise" (an sqlite3.Error other
\* than IntegrityError leaves the method)
register_user(d, k, username, password, r, f) ==
  IF ~Validate(username, password) THEN [ret |-> "False", db |-> d, disk |-> k]
  ELSE LET ins == InsertUser(d.users, username, CredentialRecord(password, r))
           d2 == [d EXCEPT !.users = ins.users]
       IN IF f = "execute" THEN [ret |-> "raise", db |-> d, disk |-> k]
          ELSE IF ins.err = "IntegrityError" THEN [ret |-> "False", db |-> d, disk |-> k]
          ELSE IF f = "commit" THEN [ret |-> "raise", db |-> d2, disk |-> k]
          ELSE [ret |-> "True", db |-> d2, disk |-> d2]

\* the comparison with the salt cut one character short
VerifyPasswordShortSalt(record, password) ==
  LET salt == SliceTo(record, SaltLen - 1)
      stored_password == SliceFrom(record, SaltLen)
      pwdhash == hexlify(pbkdf2_hmac(password, salt))
  IN pwdhash = stored_password

\* the comparison of login_user for a fetched password column
VerifyPassword(record, password) ==
  LET salt == SliceTo(record, SaltLen)
      stored_password == SliceFrom(record, SaltLen)
      pwdhash == hexlify(pbkdf2_hmac(password, salt))
  IN pwdhash = stored_password

\* login_user: every sqlite3.Error is caught and turned into False
login_user(d, username, password, f) ==
  IF f = "execute" THEN "False"
  ELSE IF username \in DOMAIN d.users
         THEN IF VerifyPassword(d.users[username], password) THEN "True" ELSE "False"
         ELSE "False"

\* ask_question without the lower() of the typed text
ask_question_no_lower(inp, correct_answer) ==
  LET user_answer == strip(inp)
  IN IF user_answer = correct_answer THEN 1 ELSE 0

\* ask_question for the typed text inp
ask_question(inp, correct_answer) ==
  LET user_answer == strip(lower(inp))
  IN IF user_answer = correct_answer THEN 1 ELSE 0

\* the tail of play: insert the score, commit, print the percentage
play_record(d, k, username, sc, nquestions, f) ==
  LET d2 == [d EXCEPT !.scores = InsertScore(@, username, sc)]
  IN IF f = "execute" THEN [exc |-> "sqlite3.Error", db |-> d, disk |-> k]
     ELSE IF f = "commit" THEN [exc |-> "sqlite3.Error", db |-> d2, disk |-> k]
     ELSE IF nquestions = 0 THEN [exc |-> "ZeroDivisionError", db |-> d2, disk |-> d2]
     ELSE [exc |-> "none", db |-> d2, disk |-> d2]

(***************************************************************************)
(* The process.                                                            *)
(***************************************************************************)
VARIABLES
  pc,          \* position of the script
  run,         \* number of startups so far
  conn,        \* the connection: "none", "open" or "closed"
  db,          \* the database as the open connection sees it
  disk,        \* the committed database file
  seedIdx,     \* add_question calls done in this run
  username,    \* the script's username
  password,    \* the script's password
  loginRet,    \* what login_user returned in this run
  regRet,      \* what register_user returned in this run
  qs,          \* play: the fetched questions
  qi,          \* play: questions asked so far
  score,       \* play: the running sum
  nright,      \* the number of answers of this session that were right
  exc,         \* the uncaught exception that ended this run, and where it rose
  registered,  \* the (username, password) pairs register_user returned True for
  faults       \* storage faults still allowed

vars == <<pc, run, conn, db, disk, seedIdx, username, password, loginRet, regRet,
          qs, qi, score, nright, exc, registered, faults>>

NoExc == [type |-> "none", origin |-> "none"]

Terminal == {"done", "crashed"}

InitWith(budget) ==
  /\ pc = "start"
  /\ run = 0
  /\ conn = "none"
  /\ db = EmptyDb
  /\ disk = EmptyDb
  /\ seedIdx = 0
  /\ username = << >>
  /\ password = << >>
  /\ loginRet = "none"
  /\ regRet = "none"
  /\ qs = << >>
  /\ qi = 0
  /\ score = 0
  /\ nright = 0
  /\ exc = NoExc
  /\ registered = {}
  /\ faults = budget

\* the database file works: no storage call raises
Init == InitWith(0)

\* up to MaxFaults storage calls raise
FaultInit == InitWith(MaxFaults)

\* an exception leaves the with-block: __exit__ closes the connection, the
\* uncommitted writes are lost, the process ends with the exception
Unwind(type, origin) ==
  /\ pc' = "crashed"
  /\ conn' = "closed"
  /\ exc' = [type |-> type, origin |-> origin]

\* QuizGame("quiz_game.db"): connect, cursor, create_tables.  An exception
\* in create_tables leaves __init__ before the with-block is entered.
Construct ==
  /\ pc \in {"start"} \cup Terminal
  /\ run < MaxRuns
  /\ \E f \in FaultChoices(faults, {"execute"}) :
       /\ faults' = faults - Cost(f)
       /\ conn' = "open"
       /\ IF f = "ok"
            THEN /\ pc' = (IF Len(Seeds) > 0 THEN "seed" ELSE "login")
                 /\ exc' = NoExc
            ELSE /\ pc' = "crashed"
                 /\ exc' = [type |-> "sqlite3.Error", origin |-> "__init__"]
  /\ run' = run + 1
  /\ db' = disk
  /\ seedIdx' = 0
  /\ username' = << >>
  /\ password' = << >>
  /\ loginRet' = "none"
  /\ regRet' = "none"
  /\ qs' = << >>
  /\ qi' = 0
  /\ score' = 0
  /\ nright' = 0
  /\ UNCHANGED <<disk, registered>>

\* game.add_question(...), one of the script's calls
AddQuestion ==
  /\ pc = "seed"
  /\ \E f \in FaultChoices(faults, {"execute", "commit"}) :
       LET s == Seeds[seedIdx + 1]
           r == add_question(db, disk, s.question, s.answer, f)
       IN /\ db' = r.db
          /\ disk' = r.disk
          /\ faults' = faults - Cost(f)
  /\ seedIdx' = seedIdx + 1
  /\ pc' = (IF seedIdx + 1 = Len(Seeds) THEN "login" ELSE "seed")
  /\ UNCHANGED <<run, conn, username, password, loginRet, regRet, qs, qi, score,
                 nright, exc, registered>>

\* username = input(..); password = getpass(..); game.login_user(..)
LoginUser ==
  /\ pc = "login"
  /\ \E u \in Usernames, p \in Passwords, f \in FaultChoices(faults, {"execute"}) :
       /\ username' = u
       /\ password' = p
       /\ loginRet' = login_user(db, u, p, f)
       /\ faults' = faults - Cost(f)
  /\ pc' = (IF loginRet' = "True" THEN "play" ELSE "register")
  /\ UNCHANGED <<run, conn, db, disk, seedIdx, regRet, qs, qi, score, nright, exc,
                 registered>>

\* game.register_user(username, password); its result is discarded
RegisterUser ==
  /\ pc = "register"
  /\ \E r \in Randoms, f \in FaultChoices(faults, {"execute", "commit"}) :
       LET res == register_user(db, disk, username, password, r, f)
       IN /\ regRet' = res.ret
          /\ faults' = faults - Cost(f)
          /\ registered' = (IF res.ret = "True"
                              THEN registered \cup {<<username, password>>}
                              ELSE registered)
          /\ IF res.ret = "raise"
               THEN /\ Unwind("sqlite3.Error", "register_user")
                    /\ db' = disk
                    /\ disk' = disk
               ELSE /\ pc' = "play"
                    /\ db' = res.db
                    /\ disk' = res.disk
                    /\ UNCHANGED <<conn, exc>>
  /\ UNCHANGED <<run, seedIdx, username, password, loginRet, qs, qi, score, nright>>

\* play: SELECT question, answer FROM questions; fetchall()
PlaySelect ==
  /\ pc = "play"
  /\ \E f \in FaultChoices(faults, {"execute"}) :
       /\ faults' = faults - Cost(f)
       /\ IF f = "ok"
            THEN /\ qs' = db.questions
                 /\ pc' = (IF Len(db.questions) > 0 THEN "ask" ELSE "record")
                 /\ UNCHANGED <<conn, exc, db>>
            ELSE /\ Unwind("sqlite3.Error", "play.select")
                 /\ db' = disk
                 /\ qs' = qs
  /\ UNCHANGED <<run, disk, seedIdx, username, password, loginRet, regRet, qi, score,
                 nright, registered>>

\* play: the next ask_question of the sum
AskQuestion ==
  /\ pc = "ask"
  /\ \E inp \in AnswerInputs(qs[qi + 1].answer) :
       /\ score' = score + ask_question(inp.text, qs[qi + 1].answer)
       /\ nright' = nright + (IF inp.right THEN 1 ELSE 0)
  /\ qi' = qi + 1
  /\ pc' = (IF qi + 1 = Len(qs) THEN "record" ELSE "ask")
  /\ UNCHANGED <<run, conn, db, disk, seedIdx, username, password, loginRet, regRet,
                 qs, exc, registered, faults>>

\* play: INSERT INTO scores, commit, the two prints
PlayRecord ==
  /\ pc = "record"
  /\ \E f \in FaultChoices(faults, {"execute", "commit"}) :
       LET res == play_record(db, disk, username, score, Len(qs), f)
       IN /\ faults' = faults - Cost(f)
          /\ disk' = res.disk
          /\ IF res.exc = "none"
               THEN /\ pc' = "exit"
                    /\ db' = res.db
                    /\ UNCHANGED <<conn, exc>>
               ELSE /\ Unwind(res.exc, "play.record")
                    /\ db' = res.disk
  /\ UNCHANGED <<run, seedIdx, username, password, loginRet, regRet, qs, qi, score,
                 nright, registered>>

\* the with-block ends: __exit__ calls close
ExitWith ==
  /\ pc = "exit"
  /\ pc' = "done"
  /\ conn' = "closed"
  /\ db' = disk
  /\ UNCHANGED <<run, disk, seedIdx, username, password, loginRet, regRet, qs, qi,
                 score, nright, exc, registered, faults>>

Next ==
  \/ Construct
  \/ AddQuestion
  \/ LoginUser
  \/ RegisterUser
  \/ PlaySelect
  \/ AskQuestion
  \/ PlayRecord
  \/ ExitWith

Spec == Init /\ [][Next]_vars

FaultSpec == FaultInit /\ [][Next]_vars

(***************************************************************************)
(* Properties.                                                             *)
(***************************************************************************)
\* the steps of the script that are one call of a method
LoginStep == pc = "login" /\ pc' # "login"

RegisterStep == pc = "register" /\ pc' # "register"

RecordStep == pc = "record" /\ pc' # "record"

\* the input constraints of register as the specification states them
ValidInput(u, p) ==
  /\ u # << >> /\ p # << >>
  /\ Len(u) >= 3
  /\ Len(p) >= 8
  /\ \A i \in 1..Len(u) : IsUpper(u[i]) \/ IsLowerCh(u[i]) \/ IsDigit(u[i])
  /\ \A i \in 1..Len(p) : IsUpper(p[i]) \/ IsLowerCh(p[i]) \/ IsDigit(p[i])

RegisteredNames == {x[1] : x \in registered}

\* C1: login(u, p) returns true exactly when an earlier register(u, p0)
\* returned true and p = p0; it returns false for a username never registered
\* and for a registered username with another password.
C1_LoginIffRegistered ==
  [][LoginStep =>
       (loginRet' = "True" <=> <<username', password'>> \in registered)]_vars

\* C1 happens: a login with the registered password succeeds
C1_Witness ==
  /\ loginRet = "True"
  /\ <<username, password>> \in registered

\* C2: register on a fresh username with valid input returns true, every
\* later register for that username returns false, and the record stored for
\* a registered username never changes.
C2_RegisterOnce ==
  /\ [][RegisterStep =>
          /\ (ValidInput(username, password) /\ username \notin RegisteredNames
                => regRet' = "True")
          /\ (username \in RegisteredNames => regRet' = "False")]_vars
  /\ [][\A u \in RegisteredNames :
          /\ u \in DOMAIN disk.users /\ u \in DOMAIN disk'.users
          /\ disk'.users[u] = disk.users[u]]_vars

\* C2 happens: a second register for a registered username, with another
\* valid password, was refused
C2_Witness ==
  /\ regRet = "False"
  /\ ValidInput(username, password)
  /\ username \in RegisteredNames
  /\ <<username, password>> \notin registered

\* C3: register with input that violates a constraint returns false and
\* leaves the three tables unchanged; input that satisfies every constraint
\* is refused only because the username exists.
C3_ValidationRejects ==
  [][RegisterStep =>
       /\ (~ValidInput(username, password)
             => regRet' = "False" /\ db' = db /\ disk' = disk)
       /\ (ValidInput(username, password) /\ regRet' = "False"
             => username \in DOMAIN db.users)]_vars

\* C3 happens: a register with a password one character short was refused
C3_Witness ==
  /\ regRet = "False"
  /\ Len(username) >= MinUsernameLen
  /\ isalnum(username) /\ isalnum(password)
  /\ Len(password) = MinPasswordLen - 1

\* C4: no storage failure leaves register or login as an uncaught exception.
C4_NoFaultEscapesCredentialOps ==
  exc.origin \notin {"register_user", "login_user"}

\* C5: the quiz runs and a score is recorded only after login or register
\* returned true in this run.
C5_PlayOnlyAfterAuth ==
  pc \in {"play", "ask", "record", "exit", "done"}
    => loginRet = "True" \/ regRet = "True"

\* C6: a storage failure in add_question or in the score insertion of play is
\* caught in that operation and does not leave it.
C6_InsertFaultsCaught ==
  exc.type = "sqlite3.Error" => exc.origin \notin {"add_question", "play.record"}

\* C7: in every terminal state of the process the connection is closed.
C7_ClosedOnEveryExit ==
  pc \in Terminal => conn = "closed"

\* C8: after any number of startups the questions table holds each seed
\* question exactly once, as after the first startup.
C8_SeededOnce ==
  pc \in Terminal => disk.questions = Seeds

\* C9: a play session appends exactly one row (username, score) to the scores
\* table and changes no other row; score is the number of right answers and
\* lies between 0 and the number of questions asked; nothing else writes the
\* table.
C9_OneScorePerSession ==
  /\ [][RecordStep =>
          /\ disk'.scores = Append(disk.scores, <<username, score>>)
          /\ score = nright
          /\ qi = Len(qs)
          /\ 0 <= score /\ score <= qi]_vars
  /\ [][~RecordStep => disk'.scores = disk.scores]_vars

\* C9 happens: a second session ended with some but not all answers right
C9_Witness ==
  /\ pc = "exit"
  /\ Len(disk.scores) >= 2
  /\ score > 0 /\ score < qi
  /\ disk.scores[Len(disk.scores)] = <<username, score>>

\* C10: a play session never ends in an uncaught fault of the percentage
\* computation, whatever the questions table holds.
C10_NoDivisionByZero ==
  exc.type # "ZeroDivisionError"

====
